---- MODULE Spec2Model ----
(***************************************************************************)
(* Mastery-inference pipeline of the ai-service repository                 *)
(* (app/master_score/main.py and app/master_score/inference.py).           *)
(*                                                                         *)
(* A request walks through get_mastery_scores: validation, conversion to a *)
(* DataFrame, model loading, feature engineering, sequence packing, the    *)
(* model call, decoding and clipping.  Numbers are exact: a float that the *)
(* code obtains with log1p or a division is kept as the pair of integers   *)
(* it is computed from, so that equalities and zero tests are decidable.   *)
(***************************************************************************)
EXTENDS Integers, Sequences, FiniteSets, TLC

(***************************************************************************)
(* Bounds of the model                                                     *)
(***************************************************************************)
\* longest interaction list of a request
MaxLen == 3

\* longest interaction list of a request that spans several chunks
LongLen == 6

\* float('nan'): a timestamp that passes isinstance(x, float) and that
\* DataFrame.dropna removes; every comparison with it is false
NaN == -1

\* padding value of the target tensor (pad_sequences(..., value=-1))
TargetPad == -1

(***************************************************************************)
(* Small helpers                                                           *)
(***************************************************************************)
Range(s) == {s[i] : i \in DOMAIN s}

MaxOf(S) == CHOOSE x \in S : \A y \in S : y <= x

MinOf(S) == CHOOSE x \in S : \A y \in S : x <= y

\* the subsequence of s at the (ascending) positions of idx
RECURSIVE SelectIdx(_, _)
SelectIdx(s, idx) ==
    IF idx = {} THEN <<>>
    ELSE LET i == CHOOSE j \in idx : \A k \in idx : j <= k
         IN  <<s[i]>> \o SelectIdx(s, idx \ {i})

(***************************************************************************)
(* Raw input: a list of interaction dictionaries.  Every field carries the *)
(* Python type of its value; type "missing" is an absent key.              *)
(***************************************************************************)
Field(t, v) == [type |-> t, val |-> v]

Interaction(s, c, st, et) ==
    [skill |-> s, correct |-> c, startTime |-> st, endTime |-> et]

Valid(s, c, st, et) ==
    Interaction(Field("str", s), Field("int", c), Field("int", st), Field("int", et))

\* well-formed interactions over three skills: four rows that tie on
\* startTime, zero durations, durations over 300 s, short gaps and gaps of
\* more than 24 hours
ValidInteractions ==
    { Valid("a", 1, 0, 0), Valid("a", 0, 0, 0), Valid("b", 1, 0, 0), Valid("b", 0, 0, 0),
      Valid("a", 0, 30, 430), Valid("c", 1, 7, 400),
      Valid("b", 1, 10, 15), Valid("c", 0, 20, 20),
      Valid("b", 0, 90010, 90010), Valid("c", 1, 90020, 90030) }

\* timestamps that are float('nan'): accepted by validation, dropped later
NaNInteractions ==
    { Interaction(Field("str", "a"), Field("bool", 1),
                  Field("float", NaN), Field("int", 0)),
      Interaction(Field("str", "b"), Field("int", 0),
                  Field("int", 10), Field("float", NaN)) }

InvalidInteractions ==
    { Interaction(Field("missing", ""), Field("int", 1),
                  Field("int", 0), Field("int", 0)),
      Interaction(Field("int", "7"), Field("int", 1),
                  Field("int", 0), Field("int", 0)),
      Interaction(Field("str", "a"), Field("missing", 0),
                  Field("int", 0), Field("int", 0)),
      Interaction(Field("str", "a"), Field("str", 1),
                  Field("int", 0), Field("int", 0)),
      Interaction(Field("str", "a"), Field("int", 1),
                  Field("missing", 0), Field("int", 0)),
      Interaction(Field("str", "a"), Field("int", 1),
                  Field("str", 0), Field("int", 0)),
      Interaction(Field("str", "a"), Field("int", 1),
                  Field("int", 0), Field("missing", 0)),
      Interaction(Field("str", "a"), Field("int", 1),
                  Field("int", 0), Field("NoneType", 0)),
      Interaction(Field("str", "a"), Field("int", 1),
                  Field("int", 10), Field("int", 5)) }

\* requests whose interactions all pass validation, and requests that mix
\* one well-formed interaction with malformed ones at any position
ShortRequests ==
    UNION {[1..n -> ValidInteractions \cup NaNInteractions] \cup
           [1..n -> {Valid("a", 1, 0, 0)} \cup NaNInteractions \cup InvalidInteractions] :
              n \in 0..MaxLen}

\* longer histories, one interaction every 100 s, each either a correct
\* answer on skill "a" or an incorrect answer on skill "b"
LongRequests ==
    UNION {{[i \in 1..n |-> IF ok[i] THEN Valid("a", 1, 100 * i, 100 * i + 10)
                                    ELSE Valid("b", 0, 100 * i, 100 * i + 10)] :
               ok \in [1..n -> BOOLEAN]} :
              n \in (MaxLen + 1)..LongLen}

Requests == ShortRequests \cup LongRequests

(***************************************************************************)
(* validate_interaction_data                                               *)
(***************************************************************************)
required_fields == <<"skill", "correct", "startTime", "endTime">>

Get(interaction, field) ==
    CASE field = "skill"     -> interaction.skill
      [] field = "correct"   -> interaction.correct
      [] field = "startTime" -> interaction.startTime
      [] field = "endTime"   -> interaction.endTime

\* isinstance(value, types); bool is a subclass of int
isinstance(f, types) ==
    \/ f.type \in types
    \/ f.type = "bool" /\ "int" \in types

\* Python's < on numbers: false as soon as one side is NaN
Less(x, y) == x # NaN /\ y # NaN /\ x < y

AIModelError(text, field, index) ==
    [kind |-> "AIModelError", text |-> text, field |-> field, index |-> index]

NoError == [kind |-> "none", text |-> "", field |-> "", index |-> -1]

\* the check of one interaction: the error it raises, or NoError
CheckInteraction(x, i) ==
    LET missing == {k \in 1..4 : Get(x, required_fields[k]).type = "missing"}
    IN  IF missing # {}
        THEN AIModelError("Missing required field", required_fields[MinOf(missing)], i)
        ELSE IF ~isinstance(x.skill, {"str"})
        THEN AIModelError("Field must be a string", "skill", i)
        ELSE IF ~isinstance(x.correct, {"bool", "int"})
        THEN AIModelError("Field must be a boolean or int", "correct", i)
        ELSE IF ~isinstance(x.startTime, {"int", "float"})
        THEN AIModelError("Field must be a number", "startTime", i)
        ELSE IF ~isinstance(x.endTime, {"int", "float"})
        THEN AIModelError("Field must be a number", "endTime", i)
        ELSE IF Less(x.endTime.val, x.startTime.val)
        THEN AIModelError("endTime must be >= startTime", "", i)
        ELSE NoError

\* a validation loop that stops after the first interaction
validate_first_only(data) ==
    IF Len(data) < 2
    THEN AIModelError("At least 2 interactions are required for inference", "", -1)
    ELSE CheckInteraction(data[1], 0)

\* the error validate_interaction_data raises on data, or NoError; i is the
\* 0-based index of the enumerate loop
validate_interaction_data(data) ==
    IF Len(data) < 2
    THEN AIModelError("At least 2 interactions are required for inference", "", -1)
    ELSE LET bad == {i \in 1..Len(data) : CheckInteraction(data[i], i - 1) # NoError}
         IN  IF bad = {} THEN NoError
             ELSE CheckInteraction(data[MinOf(bad)], MinOf(bad) - 1)

(***************************************************************************)
(* DataFrame rows and sorting                                              *)
(***************************************************************************)
\* a missing skill name (None) in a DataFrame handed to infer_knowledge
NA == "<NA>"

Row(s, c, st, et) == [skill |-> s, correct |-> c, startTime |-> st, endTime |-> et]

\* ascending order of DataFrame.sort_values, na_position='last'
Before(x, y) == x # NaN /\ (y = NaN \/ x < y)

\* a sort that leaves the rows as they are
sort_values_unsorted(rows) == {rows}

\* DataFrame.sort_values(by=<start time>) with the default kind='quicksort', which
\* is not a stable sort: every ascending arrangement of the rows is a
\* possible result, rows with equal keys may come out in any order
sort_values(rows) ==
    LET n == Len(rows)
        asc(p) == \A i, j \in 1..n : i < j => ~Before(rows[p[j]].startTime, rows[p[i]].startTime)
    IN  {[i \in 1..n |-> rows[p[i]]] : p \in {q \in Permutations(1..n) : asc(q)}}

(***************************************************************************)
(* preprocess_interaction_data (main.py): list of dicts -> DataFrame       *)
(***************************************************************************)
\* pd.DataFrame(data) with correct.astype(int), before the sort
ToFrame(data) ==
    [i \in 1..Len(data) |->
        Row(data[i].skill.val, data[i].correct.val,
            data[i].startTime.val, data[i].endTime.val)]

preprocess_interaction_data(data) == sort_values(ToFrame(data))

(***************************************************************************)
(* Exact arithmetic for the float columns                                  *)
(***************************************************************************)
Rat(n, d) == [num |-> n, den |-> d]
RatAdd(p, q) == Rat(p.num * q.den + q.num * p.den, p.den * q.den)
RatSub(p, q) == Rat(p.num * q.den - q.num * p.den, p.den * q.den)
RatMul(p, q) == Rat(p.num * q.num, p.den * q.den)
RatDiv(p, q) == Rat(p.num * q.den, p.den * q.num)
RatEq(p, q) == p.num * q.den = q.num * p.den
RatLess(p, q) == p.num * q.den < q.num * p.den

\* np.log1p(x), kept symbolic: it is strictly increasing and log1p(0) = 0
log1p(x) == [log1p |-> x]
IsZero(l) == l.log1p = 0

\* float division of two log values; 0/0 is NaN in numpy, not an exception
Divide(a, b) == [num |-> a, den |-> b]

clip(x, lo, hi) == IF x < lo THEN lo ELSE IF x > hi THEN hi ELSE x

RECURSIVE cumsum(_, _)
cumsum(s, r) == IF r = 0 THEN 0 ELSE s[r].correct + cumsum(s, r - 1)

\* Series.unique(): the distinct values in order of first appearance
RECURSIVE unique(_)
unique(s) ==
    IF s = <<>> THEN <<>>
    ELSE LET front == unique(SubSeq(s, 1, Len(s) - 1))
             last  == s[Len(s)]
         IN  IF last \in Range(front) THEN front ELSE Append(front, last)

(***************************************************************************)
(* preprocess_data (inference.py): feature engineering                     *)
(***************************************************************************)
prior_mean == Rat(1, 2)
prior_strength == 10
max_time_taken == 300
max_time_since_last == 86400

\* df.dropna(subset=['skill_name', 'correct', 'start_time', 'end_time'])
dropna(rows) ==
    SelectIdx(rows, {i \in 1..Len(rows) :
        /\ rows[i].skill # NA
        /\ rows[i].correct # NaN
        /\ rows[i].startTime # NaN
        /\ rows[i].endTime # NaN})

\* a clip that has lost its lower bound
time_taken_no_floor(r) ==
    IF r.endTime - r.startTime > max_time_taken THEN max_time_taken
    ELSE r.endTime - r.startTime

\* df['time_taken'] = (end_time - start_time).clip(0, 300)
time_taken(r) == clip(r.endTime - r.startTime, 0, max_time_taken)

\* df['start_time'].diff().fillna(0).clip(0, 86400) at position i
time_since_last(rows, i) ==
    clip(IF i = 1 THEN 0 ELSE rows[i].startTime - rows[i - 1].startTime,
         0, max_time_since_last)

\* ids numbered from 0
build_skill_map_zero_based(rows) ==
    LET skills == unique([i \in 1..Len(rows) |-> rows[i].skill])
    IN  [s \in Range(skills) |-> (CHOOSE i \in 1..Len(skills) : skills[i] = s) - 1]

\* {skill: i + 1 for i, skill in enumerate(df['skill_name'].unique())}
build_skill_map(rows) ==
    LET skills == unique([i \in 1..Len(rows) |-> rows[i].skill])
    IN  [s \in Range(skills) |-> CHOOSE i \in 1..Len(skills) : skills[i] = s]

\* a column of ids that counts the skills from 0
skill_ids_zero_based(rows, smap) == [i \in 1..Len(rows) |-> smap[rows[i].skill] - 1]

\* df['skill_id'] = df['skill_name'].map(skill_map)
skill_ids(rows, smap) == [i \in 1..Len(rows) |-> smap[rows[i].skill]]

\* the empirical difficulty without the smoothing toward the prior
difficulty_unsmoothed(rows, ids, sid) ==
    LET grp == {i \in 1..Len(rows) : ids[i] = sid}
        total_attempts == Cardinality(grp)
    IN  RatSub(Rat(1, 1), Rat(cumsum(SelectIdx(rows, grp), total_attempts), total_attempts))

\* groupby('skill_id')['correct'].agg(['mean', 'count']) and the smoothing,
\* for the group of skill id sid
difficulty_smoothed(rows, ids, sid) ==
    LET grp == {i \in 1..Len(rows) : ids[i] = sid}
        total_attempts == Cardinality(grp)
        avg_correctness == Rat(cumsum(SelectIdx(rows, grp), total_attempts), total_attempts)
        difficulty == RatSub(Rat(1, 1), avg_correctness)
    IN  RatDiv(RatAdd(RatMul(difficulty, Rat(total_attempts, 1)),
                      RatMul(prior_mean, Rat(prior_strength, 1))),
               Rat(total_attempts + prior_strength, 1))

\* a counter over all rows instead of the rows of one skill
attempt_count_all_skills(ids, i) == i

\* df.groupby('skill_id').cumcount() + 1 at position i
attempt_count(ids, i) ==
    Cardinality({j \in 1..(i - 1) : ids[j] = ids[i]}) + 1

\* Series.max(); NaN on an empty column
SeriesMax(S) == IF S = {} THEN NaN ELSE MaxOf(S)

\* the divisors of the three scaled columns
max_log_time(rows) == log1p(SeriesMax({time_taken(rows[i]) : i \in 1..Len(rows)}))
log_max_since_last == log1p(max_time_since_last)
log_max_attempt(ids) == log1p(SeriesMax({attempt_count(ids, i) : i \in 1..Len(ids)}))

\* an encoding that shifts incorrect rows by 1 instead of num_skills
interaction_feature_shift_one(skill_id, correct, num_skills) ==
    skill_id + (1 - correct)

\* df['skill_id'] + (1 - df['correct']) * num_skills
interaction_feature(skill_id, correct, num_skills) ==
    skill_id + (1 - correct) * num_skills

\* the feature table of rows that are already cleaned and sorted
FeatureRows(rows, smap) ==
    LET num_skills == Cardinality(DOMAIN smap)
        ids        == skill_ids(rows, smap)
        div_time   == max_log_time(rows)
        div_count  == log_max_attempt(ids)
    IN  [i \in 1..Len(rows) |->
          [ skill_name  |-> rows[i].skill,
            start_time  |-> rows[i].startTime,
            correct     |-> rows[i].correct,
            end_time    |-> rows[i].endTime,
            time_taken  |-> time_taken(rows[i]),
            time_taken_scaled |-> Divide(log1p(time_taken(rows[i])), div_time),
            time_since_last |-> time_since_last(rows, i),
            time_since_last_scaled |->
                Divide(log1p(time_since_last(rows, i)), log_max_since_last),
            skill_id    |-> ids[i],
            skill_difficulty |-> difficulty_smoothed(rows, ids, ids[i]),
            attempt_count |-> attempt_count(ids, i),
            attempt_count_scaled |-> Divide(log1p(attempt_count(ids, i)), div_count),
            student_avg_correctness |-> Rat(cumsum(rows, i), i),
            interaction_feature |->
                interaction_feature(ids[i], rows[i].correct, num_skills) ]]

\* (df, skill_map, num_skills) for one sorted arrangement of the rows
Features(rows) ==
    LET smap == build_skill_map(rows)
    IN  [df |-> FeatureRows(rows, smap),
         skill_map |-> smap,
         num_skills |-> Cardinality(DOMAIN smap)]

\* the possible results of preprocess_data(data)
preprocess_data(data) ==
    {Features(rows) : rows \in sort_values(dropna(data))}

(***************************************************************************)
(* create_sequences (inference.py): chunking and padding                   *)
(***************************************************************************)
\* the source's default is max_seq_len = 100; the model packs with a small
\* chunk length so that full, short and one-row chunks all occur
max_seq_len == 4

\* Python's s[lo:hi] for 0 <= lo, with 0-based bounds clamped to the length
Slice(s, lo, hi) ==
    LET h == IF hi > Len(s) THEN Len(s) ELSE IF hi < 0 THEN 0 ELSE hi
    IN  IF lo >= h THEN <<>> ELSE SubSeq(s, lo + 1, h)

\* padding in front of the values (padding='pre')
pad_sequence_pre(s, maxlen, value) ==
    LET t == IF Len(s) > maxlen THEN SubSeq(s, Len(s) - maxlen + 1, Len(s)) ELSE s
    IN  [p \in 1..maxlen |-> IF p <= maxlen - Len(t) THEN value ELSE t[p - (maxlen - Len(t))]]

\* keras pad_sequences(maxlen=maxlen, padding='post', truncating='pre')
pad_sequence(s, maxlen, value) ==
    LET t == IF Len(s) > maxlen THEN SubSeq(s, Len(s) - maxlen + 1, Len(s)) ELSE s
    IN  [p \in 1..maxlen |-> IF p <= Len(t) THEN t[p] ELSE value]

cont_pad == <<0, 0, 0, 0, 0>>

\* the start offsets of range(0, n, msl)
ChunkStarts(n, msl) == {i \in 0..(n - 1) : i % msl = 0}

\* a guard that lets a table of one row through
too_short_off_by_one(df) == Len(df) < 1

\* if len(df) <= 1: raise ValueError(...)
too_short(df) == Len(df) <= 1

\* x_cat_seq[i:end_index-1] and x_cont_seq[i:end_index-1]
input_slice(seq, i, end_index) == Slice(seq, i, end_index - 1)

\* a target slice that stops one row early
target_slice_short(seq, i, end_index) == Slice(seq, i + 1, end_index - 1)

\* y_seq_combined[i+1:end_index]
target_slice(seq, i, end_index) == Slice(seq, i + 1, end_index)

\* a test that also keeps a chunk of a single row
keep_chunk_nonempty(chunk) == Len(chunk) > 0

\* if len(x_cat_seq[i:end_index]) > 1
keep_chunk(chunk) == Len(chunk) > 1

\* the sequences create_sequences builds from a feature table of more than
\* one row, in chunk order
create_sequences(df, msl) ==
    LET n == Len(df)
        x_cat_seq  == [i \in 1..n |-> df[i].interaction_feature]
        x_cont_seq == [i \in 1..n |->
                         << df[i].time_taken_scaled, df[i].time_since_last_scaled,
                            df[i].skill_difficulty, df[i].attempt_count_scaled,
                            df[i].student_avg_correctness >>]
        y_seq_combined == [i \in 1..n |-> <<df[i].skill_id - 1, df[i].correct>>]
        kept == {i \in ChunkStarts(n, msl) : keep_chunk(Slice(x_cat_seq, i, i + msl))}
        starts == SelectIdx([k \in 1..n |-> k - 1], {i + 1 : i \in kept})
        max_len == msl - 1
    IN  [k \in 1..Len(starts) |->
          LET i == starts[k]
              end_index == i + msl
          IN  [ X_cat  |-> pad_sequence(input_slice(x_cat_seq, i, end_index), max_len, 0),
                X_cont |-> pad_sequence(input_slice(x_cont_seq, i, end_index), max_len, cont_pad),
                y      |-> pad_sequence(target_slice(y_seq_combined, i, end_index), max_len,
                                        <<TargetPad, TargetPad>>) ]]

(***************************************************************************)
(* The external model and the decode step of infer_knowledge               *)
(***************************************************************************)
\* artifacts/skill_mapping.json: the training vocabulary
skill_mapping_json == ("b" :> 1) @@ ("a" :> 2)

\* probabilities are written in percent: 100 is 1.0
ScoreUnit == 100

\* what model.predict may return for one time step of one sequence, one
\* value per output index; values outside [0, 1] are float noise, NaN is
\* what a model fed with NaN features returns
ModelOutputs == { <<25, 25, 25, 25>>, <<-50, 50, 150, NaN>> }

\* the outputs of model.predict for a batch of nseq sequences of seq_len
\* time steps: shape (nseq, seq_len, number of outputs)
ModelResults(nseq, seq_len) == [1..nseq -> [1..seq_len -> ModelOutputs]]

\* the module-level name skill_map of inference.py, bound at import to the
\* contents of skill_mapping.json
VARIABLE skill_map

\* f"Skill_{j+1}"
DefaultName(id) == "Skill_" \o ToString(id)

\* reverse_skill_map.get(j + 1, f"Skill_{j+1}")
reverse_skill_name(id) ==
    IF \E k \in DOMAIN skill_map : skill_map[k] = id
    THEN CHOOSE k \in DOMAIN skill_map : skill_map[k] = id
    ELSE DefaultName(id)

RECURSIVE decode(_, _)

\* a decode in which the first sequence wins
decode_first_wins(result, n) ==
    IF n = 0 THEN <<>>
    ELSE LET first == result[1][Len(result[1])]
         IN  [nm \in {reverse_skill_name(j) : j \in 1..Len(first)} |->
                first[MaxOf({j \in 1..Len(first) : reverse_skill_name(j) = nm})]]

\* the loop over result: predictions[skill_name] = float(k), later
\* sequences overwriting earlier ones
decode(result, n) ==
    IF n = 0 THEN <<>>
    ELSE LET prev == decode(result, n - 1)
             last == result[n][Len(result[n])]   \* i[-1]
             names == {reverse_skill_name(j) : j \in 1..Len(last)}
         IN  [nm \in (DOMAIN prev) \cup names |->
                IF nm \in names
                THEN last[MaxOf({j \in 1..Len(last) : reverse_skill_name(j) = nm})]
                ELSE prev[nm]]

\* a clip that has lost its lower bound
clip_score_no_floor(score) == IF Less(score, ScoreUnit) THEN score ELSE ScoreUnit

\* max(0.0, min(1.0, float(score)))
clip_score(score) ==
    LET m == IF Less(score, ScoreUnit) THEN score ELSE ScoreUnit
    IN  IF Less(0, m) THEN m ELSE 0

(***************************************************************************)
(* State                                                                   *)
(***************************************************************************)
VARIABLES
    pc,                \* position inside the current call
    entry,             \* the function the caller invoked
    interaction_data,  \* argument of get_mastery_scores: the caller's list
    df,                \* DataFrame handed to infer_knowledge, until it is read
    features,          \* result of preprocess_data
    sequences,         \* result of create_sequences
    result,            \* model.predict output
    predictions,       \* dict built by infer_knowledge
    scores,            \* dict returned by get_mastery_scores
    error,             \* exception that reached the caller
    predict_calls,     \* number of model.predict calls of this request
    trace,             \* stages the current call has entered, in order
    observed           \* what a caller that repeats a request has seen so far

\* KafkaClient and the coroutines that use it
VARIABLES
    is_running,        \* self._is_running
    producer,          \* self._producer: 0 is None, else an index of producers
    producers,         \* the AIOKafkaProducer objects created so far
    consumers,         \* self._consumers
    consumer_tasks,    \* self._consumer_tasks
    consumer_objs,     \* the AIOKafkaConsumer objects created so far, each with its task
    ops,               \* the call each calling coroutine is inside
    issued,            \* number of calls made so far
    last_done          \* the call that finished last

\* QuestionGeneratorConsumer.handle_request
VARIABLES
    qg_pc,             \* position inside handle_request
    qg_message,        \* message.value of the record being handled
    qg_request_id,     \* the local request_id
    qg_error,          \* the exception an except clause is handling
    qg_attempts,       \* the steps made for this record, with their outcome
    broker,            \* responses the broker accepted, oldest first
    qg_count,          \* records handled so far
    qg_raised          \* whether handle_request let an exception out

\* the coroutine of the application's lifespan, which starts and stops the
\* client, and a coroutine that uses the client meanwhile
Lifecycle == {"main"}

Workers == {"aux"}

Callers == Lifecycle \cup Workers

\* Python's None
None == "None"

\* no call in progress, no call finished yet
NoCall ==
    [ name |-> "none", pc |-> "idle", arg |-> "", auto |-> FALSE,
      it |-> [pos |-> 0, used |-> 0, left |-> 0], target |-> 0,
      running |-> FALSE, alone |-> TRUE, sent |-> 0, created |-> 0, stops |-> 0,
      reg_consumers |-> {}, reg_tasks |-> {}, outcome |-> "none" ]

\* no record
NoMessage == [kind |-> "none", request_id |-> None]

pipeline_vars == << pc, entry, interaction_data, df, features, sequences, result,
                    predictions, scores, error, predict_calls, trace, skill_map, observed >>

kafka_vars == << is_running, producer, producers, consumers, consumer_tasks,
                 consumer_objs, ops, issued, last_done >>

handler_vars == << qg_pc, qg_message, qg_request_id, qg_error, qg_attempts, broker,
                   qg_count, qg_raised >>

vars == << pipeline_vars, kafka_vars, handler_vars >>

NoFeatures == [df |-> <<>>, skill_map |-> <<>>, num_skills |-> 0]

ValueError(text) == [kind |-> "ValueError", text |-> text, field |-> "", index |-> -1]
ModelError(text) == [kind |-> "ModelError", text |-> text, field |-> "", index |-> -1]

\* a wrapper that drops the original exception
Caught_no_cause(e) ==
    [kind |-> "AIModelError", text |-> "Error calculating mastery scores", cause |-> NoError]

\* except Exception as e: raise AIModelError(f"Error calculating mastery scores: {e}")
Caught(e) ==
    [kind |-> "AIModelError", text |-> "Error calculating mastery scores", cause |-> e]

\* a handler that swallows the exception and returns what it has
Raise_swallowed(e) ==
    /\ pc' = "done"
    /\ error' = NoError

\* an exception leaves the call: wrapped when it passes through
\* get_mastery_scores, as raised when infer_knowledge was called directly
Raise(e) ==
    /\ pc' = "failed"
    /\ error' = IF entry = "get_mastery_scores" THEN Caught(e) ELSE e

\* DataFrames a caller may hand to infer_knowledge without validation
DirectRows ==
    { Row("a", 1, 0, 0), Row("b", 0, 0, 400), Row("a", 0, 20, 5),
      Row("b", 1, 90010, 90500), Row(NA, 1, 10, 15), Row("c", NaN, 10, 15) }

DirectFrames == UNION {[1..n -> DirectRows] : n \in 0..MaxLen}

\* the requests of a caller that repeats one request between other requests:
\* one over "a" then "b", one over "c" then "b", one that is too short
RepeatRequests ==
    { << Valid("a", 0, 30, 430), Valid("b", 0, 90010, 90010) >>,
      << Valid("c", 1, 7, 400), Valid("b", 1, 10, 15), Valid("c", 0, 20, 20) >>,
      << Valid("a", 1, 0, 0) >> }

RepeatFrames == { << Row("a", 1, 0, 0), Row("b", 0, 0, 400) >>, << Row("a", 1, 0, 0) >> }

\* nothing recorded yet
NoObservation == [data |-> <<>>, result |-> <<>>, scores |-> <<>>]

NotObserving == [recording |-> FALSE, arg |-> <<>>, first |-> NoObservation, later |-> {}]

\* the state after KafkaClient.__init__
KafkaClientInit ==
    /\ is_running = FALSE
    /\ producer = 0
    /\ producers = <<>>
    /\ consumers = <<>>
    /\ consumer_tasks = <<>>
    /\ consumer_objs = <<>>
    /\ ops = [c \in Callers |-> NoCall]
    /\ issued = 0
    /\ last_done = NoCall

\* no record has been handed to handle_request yet
HandlerInit ==
    /\ qg_pc = "idle"
    /\ qg_message = NoMessage
    /\ qg_request_id = None
    /\ qg_error = None
    /\ qg_attempts = <<>>
    /\ broker = <<>>
    /\ qg_count = 0
    /\ qg_raised = FALSE

\* the state a request leaves behind for a caller that compares results:
\* the first result it got, and the outcomes of its other requests since
observe_return ==
    IF ~observed.recording \/ entry # "get_mastery_scores" THEN observed
    ELSE IF observed.first = NoObservation
         THEN IF pc = "done"
              THEN [observed EXCEPT !.first = [data |-> interaction_data, result |-> result,
                                               scores |-> scores]]
              ELSE observed
         ELSE IF interaction_data # observed.first.data
              THEN [observed EXCEPT !.later = @ \cup {pc}]
              ELSE observed

\* skill_map = {...} inside preprocess_data binds a local name
assign_skill_map_global(module_level, local) == local

\* inference.py 294: skill_map = {skill: i + 1 ...} inside preprocess_data
\* binds a local name; the module-level dict keeps its value
assign_skill_map(module_level, local) == module_level

Init ==
    /\ pc = "idle"
    /\ entry = "none"
    /\ interaction_data = <<>>
    /\ df = <<>>
    /\ features = NoFeatures
    /\ sequences = <<>>
    /\ result = <<>>
    /\ predictions = <<>>
    /\ scores = <<>>
    /\ error = NoError
    /\ predict_calls = 0
    /\ trace = <<>>
    /\ skill_map = skill_mapping_json
    /\ observed = NotObserving
    /\ KafkaClientInit
    /\ HandlerInit

\* the same start, for a caller that compares the results of its requests
RepeatInit ==
    /\ pc = "idle"
    /\ entry = "none"
    /\ interaction_data = <<>>
    /\ df = <<>>
    /\ features = NoFeatures
    /\ sequences = <<>>
    /\ result = <<>>
    /\ predictions = <<>>
    /\ scores = <<>>
    /\ error = NoError
    /\ predict_calls = 0
    /\ trace = <<>>
    /\ skill_map = skill_mapping_json
    /\ observed = [NotObserving EXCEPT !.recording = TRUE]
    /\ KafkaClientInit
    /\ HandlerInit

Fresh ==
    /\ features' = NoFeatures
    /\ sequences' = <<>>
    /\ result' = <<>>
    /\ predictions' = <<>>
    /\ scores' = <<>>
    /\ error' = NoError
    /\ predict_calls' = 0

\* a caller invokes get_mastery_scores(interaction_data)
CallGetMasteryScores ==
    /\ pc = "idle"
    /\ \E data \in (IF observed.recording THEN RepeatRequests ELSE Requests) :
          /\ interaction_data' = data
          /\ observed' = [observed EXCEPT !.arg = data]
    /\ entry' = "get_mastery_scores"
    /\ pc' = "validate"
    /\ df' = <<>>
    /\ trace' = <<>>
    /\ Fresh
    /\ UNCHANGED << skill_map, kafka_vars, handler_vars >>

\* a caller invokes infer_knowledge(data) on a DataFrame of its own
CallInferKnowledge ==
    /\ pc = "idle"
    /\ \E data \in (IF observed.recording THEN RepeatFrames ELSE DirectFrames) : df' = data
    /\ entry' = "infer_knowledge"
    /\ pc' = "load_model"
    /\ interaction_data' = <<>>
    /\ trace' = <<>>
    /\ Fresh
    /\ UNCHANGED << skill_map, observed, kafka_vars, handler_vars >>

\* main.py 174: validate_interaction_data(interaction_data)
Validate ==
    /\ pc = "validate"
    /\ trace' = Append(trace, "validate")
    /\ IF validate_interaction_data(interaction_data) = NoError
       THEN pc' = "preprocess" /\ error' = error
       ELSE Raise(validate_interaction_data(interaction_data))
    /\ UNCHANGED << entry, interaction_data, df, features, sequences, result,
                    predictions, scores, predict_calls,
                    skill_map, observed, kafka_vars, handler_vars >>

\* main.py 177: df = preprocess_interaction_data(interaction_data)
PreprocessInteractionData ==
    /\ pc = "preprocess"
    /\ trace' = Append(trace, "preprocess")
    /\ \E sorted \in preprocess_interaction_data(interaction_data) : df' = sorted
    /\ pc' = "load_model"
    /\ UNCHANGED << entry, interaction_data, features, sequences, result,
                    predictions, scores, error, predict_calls,
                    skill_map, observed, kafka_vars, handler_vars >>

\* inference.py 403: keras.models.load_model(...), which may raise
LoadModel ==
    /\ pc = "load_model"
    /\ trace' = Append(trace, "load_model")
    /\ \/ pc' = "preprocess_data" /\ error' = error
       \/ Raise(ModelError("load_model failed"))
    /\ UNCHANGED << entry, interaction_data, df, features, sequences, result,
                    predictions, scores, predict_calls,
                    skill_map, observed, kafka_vars, handler_vars >>

\* inference.py 408: df, _, _, _ = preprocess_data(data)
PreprocessData ==
    /\ pc = "preprocess_data"
    /\ trace' = Append(trace, "preprocess_data")
    /\ \E f \in preprocess_data(df) :
          /\ features' = f
          /\ skill_map' = assign_skill_map(skill_map, f.skill_map)
    /\ df' = <<>>   \* data is not read again
    /\ pc' = "create_sequences"
    /\ UNCHANGED << entry, interaction_data, sequences, result,
                    predictions, scores, error, predict_calls,
                    observed, kafka_vars, handler_vars >>

\* inference.py 409: create_sequences(df), which raises on fewer than 2 rows
CreateSequences ==
    /\ pc = "create_sequences"
    /\ trace' = Append(trace, "create_sequences")
    /\ IF too_short(features.df)
       THEN /\ Raise(ValueError("Need at least 2 interactions to create sequences"))
            /\ sequences' = sequences
       ELSE /\ sequences' = create_sequences(features.df, max_seq_len)
            /\ pc' = "predict"
            /\ error' = error
    /\ UNCHANGED << entry, interaction_data, df, features, result,
                    predictions, scores, predict_calls,
                    skill_map, observed, kafka_vars, handler_vars >>

\* inference.py 412: result = model.predict([X_cat, X_cont]), which may raise
Predict ==
    /\ pc = "predict"
    /\ trace' = Append(trace, "predict")
    /\ predict_calls' = predict_calls + 1
    /\ \/ /\ \E r \in ModelResults(Len(sequences), max_seq_len - 1) : result' = r
          /\ pc' = "decode"
          /\ error' = error
       \/ /\ Raise(ModelError("predict failed"))
          /\ result' = result
    /\ UNCHANGED << entry, interaction_data, df, features, sequences,
                    predictions, scores,
                    skill_map, observed, kafka_vars, handler_vars >>

\* inference.py 414-423: the decode loop and the return of infer_knowledge
Decode ==
    /\ pc = "decode"
    /\ trace' = Append(trace, "decode")
    /\ predictions' = decode(result, Len(result))
    /\ pc' = IF entry = "get_mastery_scores" THEN "clip" ELSE "done"
    /\ UNCHANGED << entry, interaction_data, df, features, sequences, result,
                    scores, error, predict_calls,
                    skill_map, observed, kafka_vars, handler_vars >>

\* main.py 183-190: clip every score and return the dict
ClipAndReturn ==
    /\ pc = "clip"
    /\ trace' = Append(trace, "clip")
    /\ scores' = [nm \in DOMAIN predictions |-> clip_score(predictions[nm])]
    /\ pc' = "done"
    /\ UNCHANGED << entry, interaction_data, df, features, sequences, result,
                    predictions, error, predict_calls,
                    skill_map, observed, kafka_vars, handler_vars >>

\* the call is over: the caller takes the dict or the exception, and the
\* locals of the call are discarded
Return ==
    /\ pc \in {"done", "failed"}
    /\ pc' = "idle"
    /\ entry' = "none"
    /\ interaction_data' = <<>>
    /\ df' = <<>>
    /\ trace' = <<>>
    /\ Fresh
    /\ observed' = [observe_return EXCEPT !.arg = <<>>]
    /\ UNCHANGED << skill_map, kafka_vars, handler_vars >>

Next ==
    \/ CallGetMasteryScores
    \/ CallInferKnowledge
    \/ Validate
    \/ PreprocessInteractionData
    \/ LoadModel
    \/ PreprocessData
    \/ CreateSequences
    \/ Predict
    \/ Decode
    \/ ClipAndReturn
    \/ Return

Spec == Init /\ [][Next]_vars

\* the same program, used by a caller that repeats a request
RepeatSpec == RepeatInit /\ [][Next]_vars

(***************************************************************************)
(* KafkaClient (app/clients/kafka_client.py)                               *)
(***************************************************************************)
\* calls made on the client in one run
MaxOps == 4

\* records the broker delivers to the consumers in one run
MaxMsgs == 2

\* the (group_id, topic) pairs the application subscribes with
Subscriptions == { [group |-> "g1", topic |-> "t1"], [group |-> "g2", topic |-> "t2"] }

\* f"{group_id}_{','.join(topics)}"
consumer_id(sub) == sub.group \o "_" \o sub.topic

\* a dict as CPython keeps it: the entries in insertion order, a deleted
\* entry leaves a dead slot behind
Live(d) == {i \in 1..Len(d) : d[i].live}

DictLen(d) == Cardinality(Live(d))

Has(d, key) == \E i \in Live(d) : d[i].key = key

Lookup(d, key) == d[CHOOSE i \in Live(d) : d[i].key = key].val

Values(d) == {d[i].val : i \in Live(d)}

\* d[key] = val
DictSet(d, key, val) ==
    IF Has(d, key)
    THEN [i \in 1..Len(d) |-> IF d[i].live /\ d[i].key = key
                              THEN [d[i] EXCEPT !.val = val] ELSE d[i]]
    ELSE Append(d, [key |-> key, val |-> val, live |-> TRUE])

\* del d[key]
DictDel(d, key) ==
    [i \in 1..Len(d) |-> IF d[i].live /\ d[i].key = key
                         THEN [d[i] EXCEPT !.live = FALSE] ELSE d[i]]

\* iter(d.items()): the position, the size at creation, the items left
NoIter == [pos |-> 0, used |-> 0, left |-> 0]

NewIter(d) == [pos |-> 0, used |-> DictLen(d), left |-> DictLen(d)]

\* next(it) on a dict that other coroutines may have changed since the
\* last item: RuntimeError when its size or its keys changed
IterNext(d, it) ==
    LET later == {i \in Live(d) : i > it.pos}
    IN  IF DictLen(d) # it.used THEN [kind |-> "RuntimeError", idx |-> 0, it |-> it]
        ELSE IF later = {} THEN [kind |-> "StopIteration", idx |-> 0, it |-> it]
        ELSE IF it.left = 0 THEN [kind |-> "RuntimeError", idx |-> 0, it |-> it]
        ELSE [kind |-> "item", idx |-> MinOf(later),
              it |-> [pos |-> MinOf(later), used |-> it.used, left |-> it.left - 1]]

\* task.done()
Done(objs, o) == objs[o].task \in {"cancelled", "ended"}

\* a start() that goes on although the client is running
already_running_ignored(running) == FALSE

\* line 88: if self._is_running: return
already_running(running) == running

\* a guard that only looks at the producer
not_started_producer_only(running, prod) == prod = 0

\* lines 228, 292, 511: if not self._is_running or not self._producer
not_started(running, prod) == ~running \/ prod = 0

\* a loop without the try around consumer.stop()
after_consumer_stop_unguarded(raised) == IF raised THEN "raise" ELSE "continue"

\* lines 170-185: try: await consumer.stop() ... except Exception: log
after_consumer_stop(raised) == "continue"

\* a consume loop without the inner try
after_handler_unguarded(raised) == IF raised THEN "raise" ELSE "continue"

\* lines 421-448: try: handler(message) ... except Exception: log, and the
\* loop goes on with the next record
after_handler(raised) == "continue"

\* the record of a call that starts now
NewCall(c, name, arg, auto) ==
    [ name |-> name, pc |-> "call", arg |-> arg, auto |-> auto,
      it |-> NoIter, target |-> 0,
      running |-> is_running,
      alone |-> \A d \in Callers \ {c} : ops[d] = NoCall,
      sent |-> 0, created |-> 0, stops |-> 0,
      reg_consumers |-> Values(consumers), reg_tasks |-> Values(consumer_tasks),
      outcome |-> "pending" ]

\* the calls in progress once another call has started beside them
Beside(c) ==
    [d \in Callers |-> IF d # c /\ ops[d] # NoCall THEN [ops[d] EXCEPT !.alone = FALSE]
                                                   ELSE ops[d]]

\* what is kept of a call when it is over
Finished(op, outcome) ==
    [op EXCEPT !.pc = "done", !.outcome = outcome, !.it = NoIter]

CanCall(c) == ops[c] = NoCall /\ issued < MaxOps

\* the call of c goes on as op, or is over when op has an outcome
Continue(c, base, op) ==
    IF op.outcome = "pending"
    THEN /\ ops' = [base EXCEPT ![c] = op]
         /\ last_done' = last_done
    ELSE /\ ops' = [base EXCEPT ![c] = NoCall]
         /\ last_done' = op

(* start ******************************************************************)
\* lines 88-105: the guard, AIOKafkaProducer(...) and the call of start()
StartCall(c) ==
    /\ CanCall(c)
    /\ issued' = issued + 1
    /\ LET op == NewCall(c, "start", "", FALSE)
       IN  IF already_running(is_running)
           THEN /\ Continue(c, Beside(c), Finished(op, "returned"))
                /\ UNCHANGED << producer, producers >>
           ELSE /\ producers' = Append(producers, [state |-> "created", stop_calls |-> 0, sends |-> 0])
                /\ producer' = Len(producers) + 1
                /\ Continue(c, Beside(c), [op EXCEPT !.pc = "await_producer_start",
                                                     !.target = Len(producers) + 1,
                                                     !.created = 1])
    /\ UNCHANGED << is_running, consumers, consumer_tasks, consumer_objs >>

\* lines 105-133: await self._producer.start() returns or raises
StartResume(c) ==
    /\ ops[c].name = "start" /\ ops[c].pc = "await_producer_start"
    /\ \/ /\ producers' = [producers EXCEPT ![ops[c].target].state = "started"]
          /\ is_running' = TRUE
          /\ Continue(c, ops, Finished(ops[c], "returned"))
       \/ /\ producers' = [producers EXCEPT ![ops[c].target].state = "start_failed"]
          /\ is_running' = is_running
          /\ Continue(c, ops, Finished(ops[c], "KafkaConnectionError"))
    /\ UNCHANGED << producer, consumers, consumer_tasks, consumer_objs, issued >>

(* stop *******************************************************************)
\* lines 188-190: if self._producer: await self._producer.stop()
StopProducer(op, objs) ==
    IF producer # 0
    THEN [ op |-> [op EXCEPT !.pc = "await_producer_stop", !.it = NoIter,
                             !.target = producer, !.stops = @ + 1],
           objs |-> objs,
           prods |-> [producers EXCEPT ![producer].stop_calls = @ + 1],
           final |-> FALSE ]
    ELSE [ op |-> Finished(op, "returned"), objs |-> objs, prods |-> producers,
           final |-> TRUE ]

\* lines 169-171: for topic, consumer in self._consumers.items(), up to the
\* next await consumer.stop()
StopConsumers(op, it, objs) ==
    LET r == IterNext(consumers, it)
    IN  CASE r.kind = "RuntimeError" ->
               [ op |-> Finished(op, "RuntimeError"), objs |-> objs, prods |-> producers,
                 final |-> FALSE ]
          [] r.kind = "item" ->
               LET o == consumers[r.idx].val
               IN  [ op |-> [op EXCEPT !.pc = "await_consumer_stop", !.it = r.it,
                                       !.target = o, !.stops = @ + 1],
                     objs |-> [objs EXCEPT ![o].stop_calls = @ + 1],
                     prods |-> producers,
                     final |-> FALSE ]
          [] r.kind = "StopIteration" -> StopProducer(op, objs)

RECURSIVE StopTasks(_, _, _)

\* lines 155-159: for task_name, task in self._consumer_tasks.items(), up
\* to the next await task
StopTasks(op, it, objs) ==
    LET r == IterNext(consumer_tasks, it)
    IN  CASE r.kind = "RuntimeError" ->
               [ op |-> Finished(op, "RuntimeError"), objs |-> objs, prods |-> producers,
                 final |-> FALSE ]
          [] r.kind = "item" ->
               LET o == consumer_tasks[r.idx].val
               IN  IF Done(objs, o)
                   THEN StopTasks(op, r.it, objs)
                   ELSE [ op |-> [op EXCEPT !.pc = "await_task", !.it = r.it,
                                            !.target = o],
                          objs |-> [objs EXCEPT ![o].task = "cancelling"],
                          prods |-> producers,
                          final |-> FALSE ]
          [] r.kind = "StopIteration" -> StopConsumers(op, NewIter(consumers), objs)

\* the state after stop() ran up to its next await, its return or its raise
StopApply(c, base, r) ==
    /\ consumer_objs' = r.objs
    /\ producers' = r.prods
    /\ Continue(c, base, r.op)
    /\ IF r.final
       THEN /\ is_running' = FALSE          \* lines 204-206
            /\ consumers' = <<>>
            /\ consumer_tasks' = <<>>
       ELSE UNCHANGED << is_running, consumers, consumer_tasks >>
    /\ producer' = producer

\* lines 144-155: the guard and the start of the loop over the tasks
StopCall(c) ==
    /\ CanCall(c)
    /\ issued' = issued + 1
    /\ LET op == NewCall(c, "stop", "", FALSE)
       IN  IF ~is_running
           THEN StopApply(c, Beside(c), [ op |-> Finished(op, "returned"), objs |-> consumer_objs,
                                          prods |-> producers, final |-> FALSE ])
           ELSE StopApply(c, Beside(c), StopTasks(op, NewIter(consumer_tasks), consumer_objs))

\* lines 159-167: await task is over, the loop goes on
StopTaskAwaited(c) ==
    /\ ops[c].name = "stop" /\ ops[c].pc = "await_task"
    /\ Done(consumer_objs, ops[c].target)
    /\ StopApply(c, ops, StopTasks(ops[c], ops[c].it, consumer_objs))
    /\ issued' = issued

\* lines 171-185: await consumer.stop() returns or raises
StopConsumerStopped(c) ==
    /\ ops[c].name = "stop" /\ ops[c].pc = "await_consumer_stop"
    /\ \E raised \in BOOLEAN :
          LET o == ops[c].target
              objs == [consumer_objs EXCEPT ![o].state = IF raised THEN "stop_failed" ELSE "stopped"]
          IN  IF after_consumer_stop(raised) = "continue"
              THEN StopApply(c, ops, StopConsumers(ops[c], ops[c].it, objs))
              ELSE StopApply(c, ops, [ op |-> Finished(ops[c], "Exception"), objs |-> objs,
                                       prods |-> producers, final |-> FALSE ])
    /\ issued' = issued

\* lines 190-206: await self._producer.stop() returns or raises, then the
\* flag and both dicts are reset
StopProducerStopped(c) ==
    /\ ops[c].name = "stop" /\ ops[c].pc = "await_producer_stop"
    /\ \E raised \in BOOLEAN :
          StopApply(c, ops,
                    [ op |-> Finished(ops[c], "returned"),
                      objs |-> consumer_objs,
                      prods |-> [producers EXCEPT ![ops[c].target].state =
                                    IF raised THEN "stop_failed" ELSE "stopped"],
                      final |-> TRUE ])
    /\ issued' = issued

(* publish, publish_batch, get_topic_partitions ***************************)
\* a call that uses the producer: the guard, then n records handed to
\* self._producer.send()
ProducerCall(c, name, n) ==
    /\ CanCall(c)
    /\ issued' = issued + 1
    /\ LET op == NewCall(c, name, "", FALSE)
       IN  IF not_started(is_running, producer)
           THEN /\ Continue(c, Beside(c), Finished(op, "RuntimeError"))
                /\ producers' = producers
           ELSE /\ Continue(c, Beside(c), [op EXCEPT !.pc = "await_producer", !.sent = n])
                /\ producers' = [producers EXCEPT ![producer].sends = @ + n]
    /\ UNCHANGED << is_running, producer, consumers, consumer_tasks, consumer_objs >>

\* the await on the producer returns, or raises KafkaError
ProducerResume(c, name) ==
    /\ ops[c].name = name /\ ops[c].pc = "await_producer"
    /\ \E outcome \in {"returned", "KafkaError"} :
          Continue(c, ops, Finished(ops[c], outcome))
    /\ UNCHANGED << is_running, producer, producers, consumers, consumer_tasks,
                    consumer_objs, issued >>

\* lines 228-238: publish() up to await self._producer.send(...)
PublishCall(c) == ProducerCall(c, "publish", 1)

\* lines 238-271: the send returns or raises
PublishResume(c) == ProducerResume(c, "publish")

\* lines 292-307: publish_batch() with two messages, up to asyncio.gather
PublishBatchCall(c) == ProducerCall(c, "publish_batch", 2)

\* lines 307-326: the sends return or one raises
PublishBatchResume(c) == ProducerResume(c, "publish_batch")

\* lines 511-514: get_topic_partitions() up to await partitions_for(topic)
GetTopicPartitionsCall(c) == ProducerCall(c, "get_topic_partitions", 0)

\* lines 514-515: the partitions are returned
GetTopicPartitionsResume(c) == ProducerResume(c, "get_topic_partitions")

(* subscribe **************************************************************)
\* lines 350-366: the guard, AIOKafkaConsumer(...) and the call of start()
SubscribeCall(c) ==
    /\ CanCall(c)
    /\ issued' = issued + 1
    /\ \E sub \in Subscriptions : \E auto_start \in BOOLEAN :
          LET op == NewCall(c, "subscribe", consumer_id(sub), auto_start)
          IN  IF ~is_running
              THEN /\ Continue(c, Beside(c), Finished(op, "RuntimeError"))
                   /\ consumer_objs' = consumer_objs
              ELSE /\ consumer_objs' =
                         Append(consumer_objs,
                                [ id |-> consumer_id(sub), state |-> "created", stop_calls |-> 0,
                                  task |-> "none", fatal |-> FALSE, handled |-> <<>> ])
                   /\ Continue(c, Beside(c), [op EXCEPT !.pc = "await_consumer_start",
                                                        !.target = Len(consumer_objs) + 1,
                                                        !.created = 1])
    /\ UNCHANGED << is_running, producer, producers, consumers, consumer_tasks >>

\* lines 366-396: await consumer.start() returns or raises; the consumer is
\* registered and, with auto_start, its task is created and registered
SubscribeResume(c) ==
    /\ ops[c].name = "subscribe" /\ ops[c].pc = "await_consumer_start"
    /\ LET o == ops[c].target
       IN  \/ /\ consumers' = DictSet(consumers, ops[c].arg, o)
              /\ IF ops[c].auto
                 THEN /\ consumer_objs' = [consumer_objs EXCEPT ![o].state = "started",
                                                                ![o].task = "running"]
                      /\ consumer_tasks' = DictSet(consumer_tasks, ops[c].arg, o)
                 ELSE /\ consumer_objs' = [consumer_objs EXCEPT ![o].state = "started"]
                      /\ consumer_tasks' = consumer_tasks
              /\ Continue(c, ops, Finished(ops[c], "returned"))
           \/ /\ consumer_objs' = [consumer_objs EXCEPT ![o].state = "start_failed"]
              /\ UNCHANGED << consumers, consumer_tasks >>
              /\ Continue(c, ops, Finished(ops[c], "Exception"))
    /\ UNCHANGED << is_running, producer, producers, issued >>

(* unsubscribe ************************************************************)
\* lines 486-488: if consumer_id in self._consumers, up to await consumer.stop()
UnsubscribeConsumer(op, objs) ==
    IF Has(consumers, op.arg)
    THEN LET o == Lookup(consumers, op.arg)
         IN  [ op |-> [op EXCEPT !.pc = "await_consumer_stop", !.target = o, !.stops = @ + 1],
               objs |-> [objs EXCEPT ![o].stop_calls = @ + 1] ]
    ELSE [ op |-> Finished(op, "returned"), objs |-> objs ]

\* lines 475-480: if consumer_id in self._consumer_tasks, up to await task
UnsubscribeCall(c) ==
    /\ CanCall(c)
    /\ issued' = issued + 1
    /\ \E sub \in Subscriptions :
          LET op == NewCall(c, "unsubscribe", consumer_id(sub), FALSE)
              id == consumer_id(sub)
          IN  IF Has(consumer_tasks, id)
              THEN LET o == Lookup(consumer_tasks, id)
                   IN  IF Done(consumer_objs, o)
                       THEN LET r == UnsubscribeConsumer(op, consumer_objs)
                            IN  /\ consumer_tasks' = DictDel(consumer_tasks, id)
                                /\ consumer_objs' = r.objs
                                /\ Continue(c, Beside(c), r.op)
                       ELSE /\ consumer_objs' = [consumer_objs EXCEPT ![o].task = "cancelling"]
                            /\ consumer_tasks' = consumer_tasks
                            /\ Continue(c, Beside(c), [op EXCEPT !.pc = "await_task",
                                                                 !.target = o])
              ELSE LET r == UnsubscribeConsumer(op, consumer_objs)
                   IN  /\ consumer_tasks' = consumer_tasks
                       /\ consumer_objs' = r.objs
                       /\ Continue(c, Beside(c), r.op)
    /\ UNCHANGED << is_running, producer, producers, consumers >>

\* lines 480-483: await task is over; del self._consumer_tasks[consumer_id]
\* raises KeyError when the entry is gone
UnsubscribeTaskAwaited(c) ==
    /\ ops[c].name = "unsubscribe" /\ ops[c].pc = "await_task"
    /\ Done(consumer_objs, ops[c].target)
    /\ IF Has(consumer_tasks, ops[c].arg)
       THEN LET r == UnsubscribeConsumer(ops[c], consumer_objs)
            IN  /\ consumer_tasks' = DictDel(consumer_tasks, ops[c].arg)
                /\ consumer_objs' = r.objs
                /\ Continue(c, ops, r.op)
       ELSE /\ Continue(c, ops, Finished(ops[c], "KeyError"))
            /\ UNCHANGED << consumer_tasks, consumer_objs >>
    /\ UNCHANGED << is_running, producer, producers, consumers, issued >>

\* lines 488-489: await consumer.stop() returns or raises;
\* del self._consumers[consumer_id] raises KeyError when the entry is gone
UnsubscribeConsumerStopped(c) ==
    /\ ops[c].name = "unsubscribe" /\ ops[c].pc = "await_consumer_stop"
    /\ LET o == ops[c].target
       IN  \/ /\ consumer_objs' = [consumer_objs EXCEPT ![o].state = "stopped"]
              /\ IF Has(consumers, ops[c].arg)
                 THEN /\ consumers' = DictDel(consumers, ops[c].arg)
                      /\ Continue(c, ops, Finished(ops[c], "returned"))
                 ELSE /\ consumers' = consumers
                      /\ Continue(c, ops, Finished(ops[c], "KeyError"))
           \/ /\ consumer_objs' = [consumer_objs EXCEPT ![o].state = "stop_failed"]
              /\ consumers' = consumers
              /\ Continue(c, ops, Finished(ops[c], "Exception"))
    /\ UNCHANGED << is_running, producer, producers, consumer_tasks, issued >>

(* the consumer tasks *****************************************************)
Delivered == cumsum([o \in 1..Len(consumer_objs) |-> [correct |-> Len(consumer_objs[o].handled)]],
                    Len(consumer_objs))

\* lines 420-448: async for message in consumer: the handler is called with
\* the next record and returns or raises
ConsumeMessage(o) ==
    /\ consumer_objs[o].task = "running"
    /\ consumer_objs[o].state = "started"
    /\ Delivered < MaxMsgs
    /\ \E raised \in BOOLEAN :
          consumer_objs' =
              [consumer_objs EXCEPT
                  ![o].handled = Append(@, [offset |-> Len(@) + 1, raised |-> raised]),
                  ![o].task = IF after_handler(raised) = "continue" THEN "running" ELSE "ended"]
    /\ UNCHANGED << is_running, producer, producers, consumers, consumer_tasks, ops,
                    issued, last_done >>

\* lines 458-465: the iteration over the consumer raises; the error is
\* logged and the task ends
ConsumeFatal(o) ==
    /\ consumer_objs[o].task = "running"
    /\ consumer_objs' = [consumer_objs EXCEPT ![o].task = "ended", ![o].fatal = TRUE]
    /\ UNCHANGED << is_running, producer, producers, consumers, consumer_tasks, ops,
                    issued, last_done >>

\* lines 450-457: the task receives CancelledError at its await, logs and
\* re-raises: the task is done
TaskCancelled(o) ==
    /\ consumer_objs[o].task = "cancelling"
    /\ consumer_objs' = [consumer_objs EXCEPT ![o].task = "cancelled"]
    /\ UNCHANGED << is_running, producer, producers, consumers, consumer_tasks, ops,
                    issued, last_done >>

KafkaNext ==
    \/ \E c \in Lifecycle : StartCall(c) /\ UNCHANGED << pipeline_vars, handler_vars >>
    \/ \E c \in Lifecycle : StartResume(c) /\ UNCHANGED << pipeline_vars, handler_vars >>
    \/ \E c \in Lifecycle : StopCall(c) /\ UNCHANGED << pipeline_vars, handler_vars >>
    \/ \E c \in Lifecycle : StopTaskAwaited(c) /\ UNCHANGED << pipeline_vars, handler_vars >>
    \/ \E c \in Lifecycle : StopConsumerStopped(c) /\ UNCHANGED << pipeline_vars, handler_vars >>
    \/ \E c \in Lifecycle : StopProducerStopped(c) /\ UNCHANGED << pipeline_vars, handler_vars >>
    \/ \E c \in Workers : PublishCall(c) /\ UNCHANGED << pipeline_vars, handler_vars >>
    \/ \E c \in Workers : PublishResume(c) /\ UNCHANGED << pipeline_vars, handler_vars >>
    \/ \E c \in Workers : PublishBatchCall(c) /\ UNCHANGED << pipeline_vars, handler_vars >>
    \/ \E c \in Workers : PublishBatchResume(c) /\ UNCHANGED << pipeline_vars, handler_vars >>
    \/ \E c \in Workers : GetTopicPartitionsCall(c) /\ UNCHANGED << pipeline_vars, handler_vars >>
    \/ \E c \in Workers : GetTopicPartitionsResume(c) /\ UNCHANGED << pipeline_vars, handler_vars >>
    \/ \E c \in Workers : SubscribeCall(c) /\ UNCHANGED << pipeline_vars, handler_vars >>
    \/ \E c \in Workers : SubscribeResume(c) /\ UNCHANGED << pipeline_vars, handler_vars >>
    \/ \E c \in Workers : UnsubscribeCall(c) /\ UNCHANGED << pipeline_vars, handler_vars >>
    \/ \E c \in Workers : UnsubscribeTaskAwaited(c) /\ UNCHANGED << pipeline_vars, handler_vars >>
    \/ \E c \in Workers : UnsubscribeConsumerStopped(c) /\ UNCHANGED << pipeline_vars, handler_vars >>
    \/ \E o \in 1..Len(consumer_objs) : ConsumeMessage(o) /\ UNCHANGED << pipeline_vars, handler_vars >>
    \/ \E o \in 1..Len(consumer_objs) : ConsumeFatal(o) /\ UNCHANGED << pipeline_vars, handler_vars >>
    \/ \E o \in 1..Len(consumer_objs) : TaskCancelled(o) /\ UNCHANGED << pipeline_vars, handler_vars >>

KafkaSpec == Init /\ [][KafkaNext]_vars

(***************************************************************************)
(* QuestionGeneratorConsumer (app/consumers/question_generator_consumer.py) *)
(***************************************************************************)
\* records handed to handle_request in one run
MaxRequests == 2

\* message.value of the records: two valid requests, a dict that fails the
\* schema, and a value that is not a mapping
Messages ==
    { [kind |-> "valid", request_id |-> "r1"],
      [kind |-> "valid", request_id |-> "r2"],
      [kind |-> "invalid", request_id |-> "r1"],
      [kind |-> "not_a_dict", request_id |-> None] }

\* what a publish() of a response comes to: it returned and the broker
\* accepted the record, it returned and the record was lost afterwards, or
\* it raised and nothing was enqueued
PublishOutcomes == {"accepted", "lost", "raised"}

\* line 78: QuestionGenerationRequestEvent(**event_data)
validate_event(msg) ==
    CASE msg.kind = "valid" -> "ok"
      [] msg.kind = "invalid" -> "ValidationError"
      [] OTHER -> "TypeError"

\* lines 103-114: except Exception: log; if request_id: send the error response
outer_except(request_id) ==
    IF request_id # None THEN "error_response_outer" ELSE "idle"

\* a _send_error_response without its try
after_error_response_unguarded(raised) == IF raised THEN "raise" ELSE "return"

\* lines 239-246: except Exception: log
after_error_response(raised) == "return"

Step(step, outcome) == [step |-> step, outcome |-> outcome]

\* the record the broker keeps of a response it accepted
Response(status) ==
    [ record |-> qg_count, request |-> qg_message.request_id,
      key |-> qg_request_id, status |-> status ]

\* lines 62-114: request_id = None, the validation, and the call of
\* _process_request up to await agenerate_questions(...)
HandleRequest ==
    /\ qg_pc = "idle"
    /\ qg_count < MaxRequests
    /\ \E msg \in Messages :
          LET v == validate_event(msg)
          IN  /\ qg_message' = msg
              /\ qg_attempts' = << Step("validate", v) >>
              /\ IF v = "ok"
                 THEN /\ qg_request_id' = msg.request_id
                      /\ qg_error' = None
                      /\ qg_pc' = "generate"
                 ELSE /\ qg_request_id' = None
                      /\ qg_error' = v
                      /\ qg_pc' = outer_except(None)
    /\ qg_count' = qg_count + 1
    /\ qg_raised' = FALSE
    /\ UNCHANGED << broker, pipeline_vars, kafka_vars >>

\* lines 137-167: agenerate_questions returns or raises; the completed
\* response is built and publish() is called
Generate ==
    /\ qg_pc = "generate"
    /\ \E ok \in BOOLEAN :
          IF ok
          THEN /\ qg_attempts' = Append(qg_attempts, Step("generate", "ok"))
               /\ qg_pc' = "publish_completed"
               /\ qg_error' = qg_error
          ELSE /\ qg_attempts' = Append(qg_attempts, Step("generate", "raised"))
               /\ qg_pc' = "error_response_inner"
               /\ qg_error' = "Exception"
    /\ UNCHANGED << qg_message, qg_request_id, broker, qg_count, qg_raised,
                    pipeline_vars, kafka_vars >>

\* lines 167-190: await self.kafka_client.publish(..., key=request_id) of
\* the completed response returns or raises
PublishCompleted ==
    /\ qg_pc = "publish_completed"
    /\ \E out \in PublishOutcomes :
          /\ qg_attempts' = Append(qg_attempts, Step("publish_completed", out))
          /\ broker' = IF out = "accepted" THEN Append(broker, Response("completed")) ELSE broker
          /\ qg_pc' = IF out = "raised" THEN "error_response_inner" ELSE "idle"
          /\ qg_error' = IF out = "raised" THEN "KafkaError" ELSE qg_error
    /\ UNCHANGED << qg_message, qg_request_id, qg_count, qg_raised, pipeline_vars, kafka_vars >>

\* lines 206-246: _send_error_response: publish() of the failed response
\* returns or raises
SendErrorResponse ==
    /\ qg_pc \in {"error_response_inner", "error_response_outer"}
    /\ \E out \in PublishOutcomes :
          /\ qg_attempts' = Append(qg_attempts, Step("publish_failed", out))
          /\ broker' = IF out = "accepted" THEN Append(broker, Response("failed")) ELSE broker
          /\ IF after_error_response(out = "raised") = "raise"
             THEN IF qg_pc = "error_response_inner"
                  THEN /\ qg_pc' = outer_except(qg_request_id)
                       /\ qg_raised' = qg_raised
                  ELSE /\ qg_pc' = "idle"
                       /\ qg_raised' = TRUE
             ELSE /\ qg_pc' = "idle"
                  /\ qg_raised' = qg_raised
          /\ qg_error' = IF out = "raised" THEN "KafkaError" ELSE qg_error
    /\ UNCHANGED << qg_message, qg_request_id, qg_count, pipeline_vars, kafka_vars >>

HandlerNext ==
    \/ HandleRequest
    \/ Generate
    \/ PublishCompleted
    \/ SendErrorResponse

HandlerSpec == Init /\ [][HandlerNext]_vars

(***************************************************************************)
(* Properties                                                              *)
(***************************************************************************)
InGetMasteryScores == entry = "get_mastery_scores"

Entered(stage) == stage \in Range(trace)

\* the rows of the request that survive dropna, in input order
UsableRows == dropna(ToFrame(interaction_data))

PassesValidation == validate_interaction_data(interaction_data) = NoError

\* C1: a request of fewer than 2 interactions, or with fewer than 2 rows left
\* after the incomplete rows are dropped, fails: no map is returned and
\* model.predict is never called; a request of exactly 2 complete valid
\* interactions is not rejected, it can only fail when the model itself fails
C1_InsufficientDataFails ==
    InGetMasteryScores =>
        /\ (Len(interaction_data) < 2 \/ (PassesValidation /\ Len(UsableRows) < 2)) =>
              /\ predict_calls = 0
              /\ scores = <<>>
              /\ pc # "done"
              /\ ~Entered("predict")
              /\ Entered("create_sequences") => pc = "failed" /\ error.kind = "AIModelError"
        /\ (Len(interaction_data) = 2 /\ PassesValidation /\ Len(UsableRows) = 2) =>
              /\ pc = "failed" => error.cause.kind = "ModelError"
              /\ pc = "done" => predict_calls = 1 /\ DOMAIN scores # {}

\* two interactions pass validation, one is dropped for a NaN timestamp, and
\* create_sequences has rejected the single remaining row
C1_Witness ==
    /\ InGetMasteryScores
    /\ pc = "failed"
    /\ Len(interaction_data) = 2
    /\ Len(UsableRows) = 1
    /\ error.cause.kind = "ValueError"

\* an interaction a request must be rejected for
Malformed(x) ==
    \/ \E k \in 1..4 : Get(x, required_fields[k]).type = "missing"
    \/ x.skill.type # "str"
    \/ x.correct.type \notin {"bool", "int"}
    \/ x.startTime.type \notin {"int", "float"}
    \/ x.endTime.type \notin {"int", "float"}
    \/ /\ x.startTime.type \in {"int", "float"}
       /\ x.endTime.type \in {"int", "float"}
       /\ x.startTime.val # NaN /\ x.endTime.val # NaN
       /\ x.endTime.val < x.startTime.val

\* C2: a request with a malformed interaction at any position is rejected by
\* validation; preprocessing, feature computation and the model never start
C2_MalformedRejectedFirst ==
    (InGetMasteryScores /\ \E i \in 1..Len(interaction_data) : Malformed(interaction_data[i])) =>
        /\ pc \in {"validate", "failed"}
        /\ trace \in {<<>>, <<"validate">>}
        /\ df = <<>>
        /\ features = NoFeatures
        /\ predict_calls = 0
        /\ scores = <<>>
        /\ pc = "failed" => error.kind = "AIModelError" /\ error.cause.kind = "AIModelError"

\* rejected although only the last interaction of the list is malformed
C2_Witness ==
    /\ InGetMasteryScores
    /\ pc = "failed"
    /\ Len(interaction_data) = MaxLen
    /\ Malformed(interaction_data[MaxLen])
    /\ \A i \in 1..(MaxLen - 1) : ~Malformed(interaction_data[i])

\* the usable rows have pairwise distinct start times
DistinctStarts(rows) ==
    \A i, j \in 1..Len(rows) : i # j => rows[i].startTime # rows[j].startTime

\* the one strictly ascending arrangement of a set of rows
Ascending(S) ==
    CHOOSE s \in [1..Cardinality(S) -> S] :
        /\ Range(s) = S
        /\ \A i \in 1..(Cardinality(S) - 1) : s[i].startTime < s[i + 1].startTime

\* C3: with pairwise distinct start times the feature table depends only on
\* the set of interactions, not on their order in the list, and its
\* start_time column is ascending
C3_PermutationInvariant ==
    (InGetMasteryScores /\ Entered("preprocess_data") /\ DistinctStarts(UsableRows)) =>
        /\ features = Features(Ascending(Range(UsableRows)))
        /\ \A i \in 1..(Len(features.df) - 1) :
              features.df[i].start_time < features.df[i + 1].start_time

\* a feature table of 3 rows built from a list given in descending order
C3_Witness ==
    /\ InGetMasteryScores
    /\ Entered("preprocess_data")
    /\ DistinctStarts(UsableRows)
    /\ Len(UsableRows) = 3
    /\ UsableRows[1].startTime > UsableRows[2].startTime
    /\ UsableRows[2].startTime > UsableRows[3].startTime

\* the ascending arrangement that keeps tied rows in their input order
stable_sort(rows) ==
    LET n == Len(rows)
        p == CHOOSE q \in Permutations(1..n) :
                \A i, j \in 1..n : i < j =>
                    \/ rows[q[i]].startTime < rows[q[j]].startTime
                    \/ rows[q[i]].startTime = rows[q[j]].startTime /\ q[i] < q[j]
    IN  [i \in 1..n |-> rows[p[i]]]

\* C4: rows that tie on start_time keep their input order in the feature
\* table, so the table is the one a stable sort of the usable rows gives
C4_TiesKeepInputOrder ==
    (InGetMasteryScores /\ Entered("preprocess_data")) =>
        features = Features(stable_sort(UsableRows))

FirstRow(tbl, name) == MinOf({i \in 1..Len(tbl) : tbl[i].skill_name = name})

\* C5: skill ids are 1..num_skills without gaps, one id per skill name, in
\* the order in which the skills first appear in the table
C5_SkillIdFirstAppearance ==
    Entered("preprocess_data") =>
        LET tbl == features.df
            names == {tbl[i].skill_name : i \in 1..Len(tbl)}
        IN  /\ features.num_skills = Cardinality(names)
            /\ {tbl[i].skill_id : i \in 1..Len(tbl)} = 1..features.num_skills
            /\ \A i, j \in 1..Len(tbl) :
                  (tbl[i].skill_id = tbl[j].skill_id) <=> (tbl[i].skill_name = tbl[j].skill_name)
            /\ \A i, j \in 1..Len(tbl) :
                  (tbl[i].skill_id < tbl[j].skill_id) <=>
                  (FirstRow(tbl, tbl[i].skill_name) < FirstRow(tbl, tbl[j].skill_name))
            /\ \A i \in 1..Len(tbl) : features.skill_map[tbl[i].skill_name] = tbl[i].skill_id

\* three skills, the first of them in the table being "c" and the second "a"
C5_Witness ==
    /\ Entered("preprocess_data")
    /\ features.num_skills = 3
    /\ features.df[1].skill_name = "c" /\ features.df[1].skill_id = 1
    /\ features.df[2].skill_name = "a" /\ features.df[2].skill_id = 2
    /\ features.df[3].skill_name = "b" /\ features.df[3].skill_id = 3

SameSkill(tbl, i) == {j \in 1..Len(tbl) : tbl[j].skill_name = tbl[i].skill_name}

\* C6: every row of a skill with n rows, w of them incorrect, carries
\* skill_difficulty = (w + 5) / (n + 10), counted over the whole table; the
\* value lies strictly between 0 and 1
C6_DifficultySmoothed ==
    Entered("preprocess_data") =>
        LET tbl == features.df
        IN  \A i \in 1..Len(tbl) :
              LET n == Cardinality(SameSkill(tbl, i))
                  w == Cardinality({j \in SameSkill(tbl, i) : tbl[j].correct = 0})
              IN  /\ RatEq(tbl[i].skill_difficulty, Rat(w + 5, n + 10))
                  /\ RatLess(Rat(0, 1), Rat(w + 5, n + 10))
                  /\ RatLess(Rat(w + 5, n + 10), Rat(1, 1))
                  /\ tbl[i].skill_difficulty.den > 0

\* a skill seen once and answered incorrectly carries 6/11, and the first
\* row of another skill carries a value that counts one of its later rows
C6_Witness ==
    /\ Entered("preprocess_data")
    /\ Len(features.df) = 3
    /\ \E i \in 1..3 :
          /\ SameSkill(features.df, i) = {i}
          /\ features.df[i].correct = 0
          /\ RatEq(features.df[i].skill_difficulty, Rat(6, 11))
    /\ \E i, j \in 1..3 :
          /\ i < j
          /\ j \in SameSkill(features.df, i)
          /\ features.df[i].correct = 1 /\ features.df[j].correct = 0
          /\ RatEq(features.df[i].skill_difficulty, Rat(6, 12))

\* C7: attempt_count is 1 on the first row of a skill and one more than on
\* the previous row of the same skill on every later row, whatever rows of
\* other skills lie between; the last row of a skill carries its row count
C7_AttemptCountRunning ==
    Entered("preprocess_data") =>
        LET tbl == features.df
        IN  \A i \in 1..Len(tbl) :
              LET earlier == {j \in SameSkill(tbl, i) : j < i}
                  later   == {j \in SameSkill(tbl, i) : j > i}
              IN  /\ earlier = {} => tbl[i].attempt_count = 1
                  /\ earlier # {} =>
                        tbl[i].attempt_count = tbl[MaxOf(earlier)].attempt_count + 1
                  /\ later = {} =>
                        tbl[i].attempt_count = Cardinality(SameSkill(tbl, i))

\* a skill whose two rows are separated by a row of another skill
C7_Witness ==
    /\ Entered("preprocess_data")
    /\ Len(features.df) = 3
    /\ features.df[1].skill_name = features.df[3].skill_name
    /\ features.df[2].skill_name # features.df[1].skill_name
    /\ features.df[3].attempt_count = 2
    /\ features.df[2].attempt_count = 1

\* C8: interaction_feature = skill_id + (1 - correct) * num_skills lies in
\* 1..2*num_skills and identifies the pair (skill, correctness)
C8_InteractionFeature ==
    Entered("preprocess_data") =>
        LET tbl == features.df
            n   == features.num_skills
        IN  /\ \A i \in 1..Len(tbl) :
                  /\ tbl[i].interaction_feature =
                        (IF tbl[i].correct = 1 THEN tbl[i].skill_id ELSE tbl[i].skill_id + n)
                  /\ tbl[i].interaction_feature \in 1..(2 * n)
            /\ \A i, j \in 1..Len(tbl) :
                  (tbl[i].interaction_feature = tbl[j].interaction_feature) <=>
                  (tbl[i].skill_name = tbl[j].skill_name /\ tbl[i].correct = tbl[j].correct)

\* an incorrect row of skill id 1 next to a correct row of skill id 2
C8_Witness ==
    /\ Entered("preprocess_data")
    /\ features.num_skills >= 2
    /\ \E i, j \in 1..Len(features.df) :
          /\ features.df[i].skill_id = 1 /\ features.df[i].correct = 0
          /\ features.df[j].skill_id = 2 /\ features.df[j].correct = 1

Min2(x, y) == IF x < y THEN x ELSE y
Max2(x, y) == IF x > y THEN x ELSE y

\* C9: time_taken = min(max(end - start, 0), 300) and time_since_last =
\* min(max(start - previous start, 0), 86400), 0 on the first row
C9_TimeFeaturesClipped ==
    Entered("preprocess_data") =>
        LET tbl == features.df
        IN  \A i \in 1..Len(tbl) :
              /\ tbl[i].time_taken =
                    Min2(Max2(tbl[i].end_time - tbl[i].start_time, 0), 300)
              /\ tbl[i].time_since_last =
                    (IF i = 1 THEN 0
                     ELSE Min2(Max2(tbl[i].start_time - tbl[i - 1].start_time, 0), 86400))
              /\ tbl[i].time_taken \in 0..300
              /\ tbl[i].time_since_last \in 0..86400

\* a row that ends before it starts and a row more than 24 hours after the
\* previous one
C9_Witness ==
    /\ Entered("preprocess_data")
    /\ \E i \in 1..Len(features.df) :
          /\ features.df[i].end_time < features.df[i].start_time
          /\ features.df[i].time_taken = 0
    /\ \E i \in 2..Len(features.df) :
          /\ features.df[i].start_time - features.df[i - 1].start_time > 86400
          /\ features.df[i].time_since_last = 86400

\* C10: in a table of at least 2 rows no scaled column is divided by zero
C10_NoZeroDivisor ==
    (Entered("preprocess_data") /\ Len(features.df) >= 2) =>
        \A i \in 1..Len(features.df) :
            /\ ~IsZero(features.df[i].time_taken_scaled.den)
            /\ ~IsZero(features.df[i].time_since_last_scaled.den)
            /\ ~IsZero(features.df[i].attempt_count_scaled.den)

(***************************************************************************)
(* Properties of create_sequences                                          *)
(***************************************************************************)
\* create_sequences has returned
Packed == Entered("predict") \/ pc = "predict"

\* positions of a padded tensor that hold a value of the feature table
RealInputs(seq) == {p \in 1..Len(seq.X_cat) : seq.X_cat[p] # 0}
RealTargets(seq) == {p \in 1..Len(seq.y) : seq.y[p] # <<TargetPad, TargetPad>>}

\* C11: a table of exactly max_seq_len rows gives exactly one sequence with
\* max_seq_len - 1 real input positions and max_seq_len - 1 real target
\* positions: the target holds no padding
C11_FullChunkUnpadded ==
    (Packed /\ Len(features.df) = max_seq_len) =>
        /\ Len(sequences) = 1
        /\ RealInputs(sequences[1]) = 1..(max_seq_len - 1)
        /\ RealTargets(sequences[1]) = 1..(max_seq_len - 1)
        /\ \A p \in 1..Len(sequences[1].y) : sequences[1].y[p][1] # TargetPad

\* a request of exactly max_seq_len rows has been packed
C11_Witness ==
    /\ Packed
    /\ Len(features.df) = max_seq_len
    /\ Len(sequences) = 1

\* C12: a table of max_seq_len + 1 rows gives two sequences, the second one
\* holding the tail rows, followed by padding
C12_TailChunkPacked ==
    (Packed /\ Len(features.df) = max_seq_len + 1) =>
        /\ Len(sequences) = 2
        /\ sequences[2].X_cat[1] = features.df[max_seq_len + 1].interaction_feature
        /\ sequences[2].X_cat[max_seq_len - 1] = 0

\* the table row an input or target position of sequence k comes from
InputRow(k, p) == (k - 1) * max_seq_len + p
TargetRow(k, p) == (k - 1) * max_seq_len + p + 1

\* C13: in every sequence the real input positions and the real target
\* positions are the same, and the target at a position is
\* [skill_id - 1, correct] of the row after the row of the input
C13_InputsMatchTargets ==
    Packed =>
        \A k \in 1..Len(sequences) :
            /\ RealInputs(sequences[k]) = RealTargets(sequences[k])
            /\ \A p \in RealTargets(sequences[k]) :
                  /\ sequences[k].X_cat[p] = features.df[InputRow(k, p)].interaction_feature
                  /\ sequences[k].y[p] = << features.df[TargetRow(k, p)].skill_id - 1,
                                            features.df[TargetRow(k, p)].correct >>

ContOf(r) == << r.time_taken_scaled, r.time_since_last_scaled, r.skill_difficulty,
                r.attempt_count_scaled, r.student_avg_correctness >>

\* C14: each tensor of a sequence has max_seq_len - 1 positions; a prefix
\* holds the rows of the chunk, unchanged and in order, none of them cut
\* off, and every later position holds the padding value
C14_PaddedPrefix ==
    Packed =>
        \A k \in 1..Len(sequences) :
            LET n  == Len(features.df)
                ml == max_seq_len - 1
                nx == Min2(ml, n - (k - 1) * max_seq_len)
                ny == Min2(ml, n - (k - 1) * max_seq_len - 1)
                sq == sequences[k]
            IN  /\ Len(sq.X_cat) = ml /\ Len(sq.X_cont) = ml /\ Len(sq.y) = ml
                /\ \A p \in 1..ml :
                      /\ p <= nx => /\ sq.X_cat[p] = features.df[InputRow(k, p)].interaction_feature
                                    /\ sq.X_cont[p] = ContOf(features.df[InputRow(k, p)])
                      /\ p > nx  => sq.X_cat[p] = 0 /\ sq.X_cont[p] = cont_pad
                      /\ p <= ny => sq.y[p] = << features.df[TargetRow(k, p)].skill_id - 1,
                                                 features.df[TargetRow(k, p)].correct >>
                      /\ p > ny  => sq.y[p] = <<TargetPad, TargetPad>>

\* a sequence of 2 rows: its input and its target both end in padding
C14_Witness ==
    /\ Packed
    /\ Len(features.df) = 2
    /\ Len(sequences) = 1
    /\ sequences[1].X_cat[2] # 0
    /\ sequences[1].X_cat[max_seq_len - 1] = 0
    /\ sequences[1].y[1] # <<TargetPad, TargetPad>>
    /\ sequences[1].y[2] = <<TargetPad, TargetPad>>

\* rows of the chunk that starts at 0-based offset i
ChunkRows(n, i) == Min2(max_seq_len, n - i)

\* C15: a chunk gives a sequence exactly when it has more than 1 row; a
\* single leftover row gives no sequence and no error, a table of exactly 2
\* rows gives one sequence with one real target position
C15_ChunkSkipBoundary ==
    /\ Packed =>
          LET n == Len(features.df)
          IN  /\ Len(sequences) =
                    Cardinality({i \in 0..(n - 1) : i % max_seq_len = 0 /\ ChunkRows(n, i) > 1})
              /\ n = 2 => Len(sequences) = 1 /\ Cardinality(RealTargets(sequences[1])) = 1
    /\ (Entered("create_sequences") /\ Len(features.df) >= 2) => Packed

\* max_seq_len + 1 rows: the single leftover row is skipped, one sequence
\* is built and the call goes on to the model
C15_Witness ==
    /\ Packed
    /\ Len(features.df) = max_seq_len + 1
    /\ Len(sequences) = 1
    /\ error = NoError

(***************************************************************************)
(* Properties of the decode step and of the outcome of a call              *)
(***************************************************************************)
\* infer_knowledge has built its dict
Decoded == Entered("decode")

\* the output vector of the last time step of sequence k
LastStep(k) == result[k][Len(result[k])]

\* number of outputs of the model
NumOutputs == Len(LastStep(1))

\* C16: the value reported for every output index is the one of the last
\* time step of the last sequence; earlier sequences are overwritten, never
\* averaged or merged
C16_LastSequenceWins ==
    Decoded =>
        \A j \in 1..NumOutputs :
            predictions[reverse_skill_name(j)] = LastStep(Len(result))[j]

\* two sequences whose last time steps differ
C16_Witness ==
    /\ Decoded
    /\ Len(result) = 2
    /\ LastStep(1) # LastStep(2)
    /\ predictions["b"] = LastStep(2)[1]
    /\ predictions["b"] # LastStep(1)[1]

\* the skill the request's own skill_name -> skill_id mapping gives id
RequestName(id) == CHOOSE k \in DOMAIN features.skill_map : features.skill_map[k] = id

\* C17: output index j is reported under the skill whose id is j + 1
\* (1-based: j) in the inverse of the mapping built for the request, and the
\* dict holds exactly the skills of the request
C17_DecodeUsesRequestMap ==
    Decoded =>
        /\ DOMAIN predictions = DOMAIN features.skill_map
        /\ \A j \in 1..features.num_skills :
              predictions[RequestName(j)] = LastStep(Len(result))[j]

\* C18: every returned score lies in [0, 1]: a raw value below 0 becomes 0,
\* a raw value above 1 becomes 1, a raw value inside the range is unchanged
C18_ScoresClipped ==
    (InGetMasteryScores /\ pc = "done") =>
        /\ DOMAIN scores = DOMAIN predictions
        /\ \A nm \in DOMAIN scores :
              LET raw == predictions[nm]
              IN  /\ scores[nm] \in 0..ScoreUnit
                  /\ (raw # NaN /\ raw < 0) => scores[nm] = 0
                  /\ raw > ScoreUnit => scores[nm] = ScoreUnit
                  /\ raw \in 0..ScoreUnit => scores[nm] = raw

\* a returned map with a value raised to 0, one unchanged and one cut to 1
C18_Witness ==
    /\ InGetMasteryScores
    /\ pc = "done"
    /\ predictions["b"] = -50 /\ scores["b"] = 0
    /\ predictions["a"] = 50 /\ scores["a"] = 50
    /\ predictions["Skill_3"] = 150 /\ scores["Skill_3"] = ScoreUnit

AllStages == << "validate", "preprocess", "load_model", "preprocess_data",
                "create_sequences", "predict", "decode", "clip" >>

\* C19: a call either fails with an error and no map, or returns a map that
\* has an entry for every model output after every stage has succeeded
C19_AllOrNothing ==
    InGetMasteryScores =>
        /\ scores # <<>> => pc = "done"
        /\ pc = "failed" => scores = <<>> /\ error.kind = "AIModelError"
        /\ pc = "done" =>
              /\ error = NoError
              /\ trace = AllStages
              /\ \A j \in 1..NumOutputs : reverse_skill_name(j) \in DOMAIN scores

\* the model call failed after every earlier stage succeeded: no map
C19_Witness ==
    /\ InGetMasteryScores
    /\ pc = "failed"
    /\ trace = SubSeq(AllStages, 1, 6)
    /\ scores = <<>>
    /\ predictions = <<>>

\* the exception raised by the stage at which the call failed
RaisedError ==
    LET stage == trace[Len(trace)]
    IN  CASE stage = "validate"         -> validate_interaction_data(interaction_data)
          [] stage = "load_model"       -> ModelError("load_model failed")
          [] stage = "create_sequences" ->
                ValueError("Need at least 2 interactions to create sequences")
          [] stage = "predict"          -> ModelError("predict failed")

\* C20 as stated: the error the caller of get_mastery_scores receives is the
\* error that was raised, with the same kind and the same message
C20_ErrorsUnchanged ==
    (InGetMasteryScores /\ pc = "failed") =>
        /\ error.kind = RaisedError.kind
        /\ error.text = RaisedError.text

\* C20 as amended: the caller of get_mastery_scores always receives an
\* AIModelError "Error calculating mastery scores: <original message>" that
\* carries the raised exception as its context; no error is dropped
C20_ErrorsWrapped ==
    (InGetMasteryScores /\ pc = "failed") =>
        /\ error.kind = "AIModelError"
        /\ error.text = "Error calculating mastery scores"
        /\ error.cause = RaisedError
        /\ error.cause # NoError

\* a validation error that reaches the caller inside a second AIModelError
C20_Witness ==
    /\ InGetMasteryScores
    /\ pc = "failed"
    /\ trace = <<"validate">>
    /\ error.text = "Error calculating mastery scores"
    /\ error.cause.kind = "AIModelError"
    /\ error.cause.text = "Missing required field"
    /\ error.cause.index = 1

(***************************************************************************)
(* Padding values against real values                                      *)
(***************************************************************************)
\* number of rows x_cat_seq[i:end_index-1] takes from n rows for the chunk
\* that starts at row i (0-based)
InputCount(n, i) == Max2(0, Min2(max_seq_len - 1, n - i))

\* number of rows y_seq_combined[i+1:end_index] takes
TargetCount(n, i) == Max2(0, Min2(max_seq_len, n - i) - 1)

TransitionPacked(k) ==
    \E s \in 1..Len(sequences) : \E p \in 1..(max_seq_len - 1) :
        LET i == (s - 1) * max_seq_len
            n == Len(features.df)
        IN  /\ InputRow(s, p) = k
            /\ p <= InputCount(n, i)
            /\ p <= TargetCount(n, i)
            /\ sequences[s].X_cat[p] = features.df[k].interaction_feature
            /\ sequences[s].X_cont[p] = ContOf(features.df[k])
            /\ sequences[s].y[p] = <<features.df[k + 1].skill_id - 1, features.df[k + 1].correct>>

\* C28: every pair of consecutive rows of a table of 2 or more rows is
\* packed as (input, target) at one position of one sequence, the pairs
\* that straddle a chunk boundary included
C28_NoTransitionLost ==
    Packed => \A k \in 1..(Len(features.df) - 1) : TransitionPacked(k)

\* the time step i[-1] that the decode loop reads
DecodedStep == Len(result[Len(result)])

\* C29: the decoded time step is the position of the last real input of
\* the last sequence, never a padded position
C29_DecodedStepIsReal ==
    Decoded =>
        LET s == Len(sequences)
        IN  /\ DecodedStep = InputCount(Len(features.df), (s - 1) * max_seq_len)
            /\ sequences[s].X_cat[DecodedStep] # 0

(***************************************************************************)
(* Requests do not influence each other                                    *)
(***************************************************************************)
\* C21: whatever requests were served before, the module-level vocabulary
\* still holds the contents of skill_mapping.json, the caller's list is as
\* the caller passed it, and a request that was answered before, scored by
\* the model with the same outputs, gets the same mastery map again
C21_Stateless ==
    /\ skill_map = skill_mapping_json
    /\ (InGetMasteryScores /\ pc # "idle") => interaction_data = observed.arg
    /\ ( /\ InGetMasteryScores
         /\ pc = "done"
         /\ observed.first # NoObservation
         /\ interaction_data = observed.first.data
         /\ result = observed.first.result ) => scores = observed.first.scores

\* a request is answered a second time after another request succeeded and
\* another one failed, and the answer is the one it got the first time
C21_Witness ==
    /\ InGetMasteryScores
    /\ pc = "done"
    /\ observed.first # NoObservation
    /\ interaction_data = observed.first.data
    /\ result = observed.first.result
    /\ observed.later = {"done", "failed"}
    /\ scores = observed.first.scores
    /\ features.skill_map # skill_map

(***************************************************************************)
(* KafkaClient: properties                                                 *)
(***************************************************************************)
\* the calls in progress and the call that ended last
Calls == {ops[c] : c \in Callers} \cup {last_done}

UseCalls == {"publish", "publish_batch", "subscribe", "get_topic_partitions"}

\* C22: a start() issued while the client is running creates and starts no
\* producer and returns; is_running is True only while the current producer
\* has started successfully; a start() whose producer fails to connect
\* raises and is_running is False afterwards.
C22_StartContract ==
    /\ \A op \in Calls : op.name = "start" /\ op.running =>
            op.created = 0 /\ op.outcome = "returned"
    /\ is_running => producer # 0 /\ producers[producer].state = "started"
    /\ last_done.name = "start" /\ last_done.outcome # "returned" =>
            /\ last_done.outcome = "KafkaConnectionError"
            /\ ~is_running

\* a start() on a running client has returned, after an earlier start()
\* failed to connect
C22_Witness ==
    /\ last_done.name = "start" /\ last_done.running /\ last_done.outcome = "returned"
    /\ \E p \in 1..Len(producers) : producers[p].state = "start_failed"

\* C23: publish, publish_batch, subscribe and get_topic_partitions called
\* while the client is not running raise RuntimeError at once, hand nothing
\* to the producer and create no consumer.
C23_NotRunningRaises ==
    /\ \A op \in Calls : op.name \in UseCalls /\ ~op.running =>
            /\ op.outcome = "RuntimeError"
            /\ op.sent = 0
            /\ op.created = 0
    /\ \A p \in 1..Len(producers) :
            producers[p].state \in {"created", "start_failed"} => producers[p].sends = 0

\* publish() has raised on a client that was started and stopped
C23_Witness ==
    /\ last_done.name = "publish" /\ ~last_done.running
    /\ last_done.outcome = "RuntimeError"
    /\ producer # 0 /\ producers[producer].state = "stopped"

C25_HandlerErrorsDoNotEndLoop ==
    \A o \in 1..Len(consumer_objs) :
        /\ \A k \in 1..Len(consumer_objs[o].handled) : consumer_objs[o].handled[k].offset = k
        /\ consumer_objs[o].task = "ended" => consumer_objs[o].fatal
        /\ consumer_objs[o].task = "none" => consumer_objs[o].handled = <<>>

\* the handler raised on the first record and was called with the second
C25_Witness ==
    \E o \in 1..Len(consumer_objs) :
        /\ Len(consumer_objs[o].handled) = 2
        /\ consumer_objs[o].handled[1].raised
        /\ ~consumer_objs[o].handled[2].raised
        /\ consumer_objs[o].task = "running"

\* C30: a client that is not running has no registered consumer and no
\* consumer task, whatever the interleaving of subscribe(), unsubscribe()
\* and stop().
C30_StoppedClientHasNoConsumers ==
    ~is_running => DictLen(consumers) = 0 /\ DictLen(consumer_tasks) = 0

(***************************************************************************)
(* QuestionGeneratorConsumer: properties                                   *)
(***************************************************************************)
\* the responses the broker accepted for the record being handled
Responses == {i \in 1..Len(broker) : broker[i].record = qg_count}

Stepped(step, outcome) == \E k \in 1..Len(qg_attempts) : qg_attempts[k] = Step(step, outcome)

\* C26: handle_request never lets an exception out; the broker accepts at
\* most one response for each record, keyed by the request_id of the
\* record; the response is 'completed' exactly when the generation
\* succeeded and the publish of the completed response was accepted, and
\* 'failed' only when the generation or that publish raised; a record that
\* fails validation gets no response.
C26_OneResponse ==
    /\ ~qg_raised
    /\ \A i, j \in 1..Len(broker) : broker[i].record = broker[j].record => i = j
    /\ \A i \in 1..Len(broker) : broker[i].key = broker[i].request /\ broker[i].key # None
    /\ \A i \in Responses :
          /\ broker[i].status = "completed" =>
                Stepped("generate", "ok") /\ Stepped("publish_completed", "accepted")
          /\ broker[i].status = "failed" =>
                /\ Stepped("generate", "raised") \/ Stepped("publish_completed", "raised")
                /\ Stepped("publish_failed", "accepted")
    /\ qg_pc = "idle" /\ Stepped("publish_completed", "accepted") =>
          \E i \in Responses : broker[i].status = "completed"
    /\ qg_count > 0 /\ ~Stepped("validate", "ok") => Responses = {} /\ qg_pc = "idle"

\* a completed response for the first record, and a failed response for the
\* second after the publish of its completed response raised
C26_Witness ==
    /\ Len(broker) = 2
    /\ broker[1].status = "completed" /\ broker[2].status = "failed"
    /\ Stepped("publish_completed", "raised")
    /\ qg_pc = "idle"

====
